---- MODULE Spec2Model ----
(***************************************************************************)
(* xkart_backend (src/src/xkart_backend/src/lib.rs): an ICRC-1 style token *)
(* ledger, NFT registry, race escrow and tokenization campaigns of one     *)
(* Internet Computer canister.                                             *)
(*                                                                         *)
(* Execution model.  Every #[update] method runs to completion on the      *)
(* canister's thread_local state; a Rust panic (a RefCell double borrow,   *)
(* an arithmetic overflow in a build with overflow checks) traps the       *)
(* message, and the replica discards every state change of a trapped       *)
(* message.  An Err(..) return is an ordinary reply: changes made before   *)
(* it are kept.  One action below is one whole message.                    *)
(*                                                                         *)
(* Widths.  u64 is modelled with U64Bits bits and f64 with a MantBits-bit  *)
(* significand (round to nearest, ties to even); MantBits = 4k+1 like      *)
(* f64's 53 = 4*13+1, so the literals 0.3 and 0.2 round in the same        *)
(* direction as they do in f64.                                            *)
(***************************************************************************)
EXTENDS Integers, Sequences, FiniteSets, TLC

\* ------------------------------------------------------------- bounds
MantGroups == 1
MantBits == 4 * MantGroups + 1
U64Bits == MantBits + 2
Modulus == 2 ^ U64Bits
U64Max == Modulus - 1
Unit == Modulus \div 4

\* ------------------------------------------------------------- values
Users == {"u1", "u2", "u3"}
Deployer == "u1"
Canister == "canister"
Principals == Users \cup {Canister}
None == "None"
Subaccounts == {None, "Sub"}
Account == [owner : Principals, subaccount : Subaccounts]

Acct(p) == [owner |-> p, subaccount |-> None]

\* Option<u64>: <<>> is None, <<x>> is Some(x).
NoPrice == <<>>
Some(x) == <<x>>

VARIABLES
    BALANCES,                \* HashMap<Account, u64>; an absent key reads as 0
    TOTAL_SUPPLY,            \* u64
    RACES,                   \* HashMap<u64, Race>, keys 1..len
    NFTS,                    \* HashMap<u64, NFT>, keys 1..len
    TOKENIZATION_CAMPAIGNS,  \* HashMap<u64, TokenizationCampaign>, keys 1..len
    ADMINS,                  \* Vec<Principal>, read only through contains()
    now,                     \* ic_cdk::api::time()
    overflow_checks,         \* the build: TRUE if `+=` panics on overflow, FALSE if it wraps
    rewards,                 \* per campaign: how many times mint_campaign_rewards ran
    last,                    \* the last message: method, caller, arguments, reply
    pay_in, pay_out          \* inputs and result of the payout computation (PaySpec)

vars == <<BALANCES, TOTAL_SUPPLY, RACES, NFTS, TOKENIZATION_CAMPAIGNS, ADMINS,
          now, overflow_checks, rewards, last, pay_in, pay_out>>

ledger == <<BALANCES, TOTAL_SUPPLY>>
stores == <<RACES, NFTS, TOKENIZATION_CAMPAIGNS, ADMINS>>
env == <<now, overflow_checks, pay_in, pay_out>>

\* ------------------------------------------------------------- u64
Overflows(a, b) == a + b > U64Max
WrapAdd(a, b) == (a + b) % Modulus
WrapSub(a, b) == (a - b + Modulus) % Modulus

\* The reply of a message and what it records in `last`.
Reply(op, caller, args, res, balance) ==
    [op |-> op, caller |-> caller, args |-> args, res |-> res, balance |-> balance]

\* ------------------------------------------------------------- helpers
is_minting_authority(principal) == principal \in ADMINS

is_admin(principal) == principal \in ADMINS

\* ------------------------------------------------------------- ledger
icrc1_balance_of(bal, account) == bal[account]

icrc1_total_supply == TOTAL_SUPPLY

\* icrc1_transfer without its balance check.
icrc1_transfer_unchecked(bal, caller, from_subaccount, to, amount) ==
    LET from_account == [owner |-> caller, subaccount |-> from_subaccount]
        debited == [bal EXCEPT ![from_account] = WrapSub(@, amount)]
        credited == [debited EXCEPT ![to] = WrapAdd(@, amount)]
    IN  IF overflow_checks /\ Overflows(debited[to], amount)
        THEN [res |-> "Trap", balance |-> 0, balances |-> bal]
        ELSE [res |-> "Ok", balance |-> 0, balances |-> credited]

\* The body of icrc1_transfer on a balance map: the reply and the new map.
\* res is "Ok", "InsufficientFunds" (with the balance) or "Trap" (the credit
\* overflowed in a build that checks overflow).
icrc1_transfer(bal, caller, from_subaccount, to, amount) ==
    LET from_account == [owner |-> caller, subaccount |-> from_subaccount]
        from_balance == bal[from_account]
        debited == [bal EXCEPT ![from_account] = WrapSub(@, amount)]
        credited == [debited EXCEPT ![to] = WrapAdd(@, amount)]
    IN  IF from_balance < amount
        THEN [res |-> "InsufficientFunds", balance |-> from_balance, balances |-> bal]
        ELSE IF overflow_checks /\ Overflows(debited[to], amount)
        THEN [res |-> "Trap", balance |-> 0, balances |-> bal]
        ELSE [res |-> "Ok", balance |-> 0, balances |-> credited]

Transfer(caller, from_subaccount, to, amount) ==
    LET r == icrc1_transfer(BALANCES, caller, from_subaccount, to, amount)
    IN  /\ BALANCES' = r.balances
        /\ last' = Reply("icrc1_transfer", caller, <<from_subaccount, to, amount>>,
                         r.res, r.balance)
        /\ UNCHANGED <<TOTAL_SUPPLY, stores, env, rewards>>

\* icrc1_mint without its authority check.
MintAnyone(caller, to, amount) ==
    LET res == IF overflow_checks /\ (Overflows(BALANCES[to], amount)
                                      \/ Overflows(TOTAL_SUPPLY, amount))
               THEN "Trap"
               ELSE "Ok"
    IN  /\ last' = Reply("icrc1_mint", caller, <<to, amount>>, res, 0)
        /\ IF res = "Ok"
           THEN /\ BALANCES' = [BALANCES EXCEPT ![to] = WrapAdd(@, amount)]
                /\ TOTAL_SUPPLY' = WrapAdd(TOTAL_SUPPLY, amount)
           ELSE UNCHANGED ledger
        /\ UNCHANGED <<stores, env, rewards>>

Mint(caller, to, amount) ==
    LET res == IF ~is_minting_authority(caller) THEN "Not authorized to mint tokens"
               ELSE IF overflow_checks /\ (Overflows(BALANCES[to], amount)
                                           \/ Overflows(TOTAL_SUPPLY, amount))
               THEN "Trap"
               ELSE "Ok"
    IN  /\ last' = Reply("icrc1_mint", caller, <<to, amount>>, res, 0)
        /\ IF res = "Ok"
           THEN /\ BALANCES' = [BALANCES EXCEPT ![to] = WrapAdd(@, amount)]
                /\ TOTAL_SUPPLY' = WrapAdd(TOTAL_SUPPLY, amount)
           ELSE UNCHANGED ledger
        /\ UNCHANGED <<stores, env, rewards>>

\* ------------------------------------------------------------- admins
\* add_admin without its admin check.
AddAdminAnyone(caller, principal) ==
    /\ ADMINS' = ADMINS \cup {principal}
    /\ last' = Reply("add_admin", caller, <<principal>>, "Ok", 0)
    /\ UNCHANGED <<ledger, RACES, NFTS, TOKENIZATION_CAMPAIGNS, env, rewards>>

AddAdmin(caller, principal) ==
    /\ IF is_admin(caller)
       THEN /\ ADMINS' = ADMINS \cup {principal}
            /\ last' = Reply("add_admin", caller, <<principal>>, "Ok", 0)
       ELSE /\ UNCHANGED ADMINS
            /\ last' = Reply("add_admin", caller, <<principal>>,
                             "Only admins can add new admins", 0)
    /\ UNCHANGED <<ledger, RACES, NFTS, TOKENIZATION_CAMPAIGNS, env, rewards>>

\* ------------------------------------------------------------- f64
\* An f64 value m * 2^e with m < 2^MantBits; every result is rounded to
\* MantBits significant bits, to nearest, ties to even.
RECURSIVE BitLen(_)
BitLen(n) == IF n = 0 THEN 0 ELSE 1 + BitLen(n \div 2)

\* n / d rounded to the nearest integer, ties to even.
RoundDiv(n, d) ==
    LET q == n \div d
        r == n % d
    IN  IF 2 * r > d \/ (2 * r = d /\ q % 2 = 1) THEN q + 1 ELSE q

\* The f64 nearest to n * 2^e.
F64Round(n, e) ==
    LET s == BitLen(n) - MantBits
        q == RoundDiv(n, 2 ^ s)
    IN  IF s <= 0 THEN [m |-> n, e |-> e]
        ELSE IF q = 2 ^ MantBits THEN [m |-> 2 ^ (MantBits - 1), e |-> e + s + 1]
        ELSE [m |-> q, e |-> e + s]

\* `x as f64` of a u64 x.
U64ToF64(x) == F64Round(x, 0)

\* The f64 a decimal literal num/den (0 < num < den) denotes.
F64Lit(num, den) ==
    LET k == CHOOSE j \in 1..(MantBits + 8) :
                 /\ 2 ^ (MantBits - 1) * den <= num * 2 ^ j
                 /\ num * 2 ^ j < 2 ^ MantBits * den
        q == RoundDiv(num * 2 ^ k, den)
    IN  IF q = 2 ^ MantBits THEN [m |-> 2 ^ (MantBits - 1), e |-> 1 - k]
        ELSE [m |-> q, e |-> 0 - k]

F64Mul(a, b) == F64Round(a.m * b.m, a.e + b.e)

\* `f as u64` of a non-negative f64: truncates, and saturates at u64::MAX.
F64ToU64(f) ==
    IF f.e >= 0
    THEN (IF f.m * 2 ^ f.e > U64Max THEN U64Max ELSE f.m * 2 ^ f.e)
    ELSE f.m \div 2 ^ (0 - f.e)

\* ------------------------------------------------------------- payouts
\* Distribution scheme: 50% to winner, 30% to second, 20% to third.
reward_percentages ==
    << [position |-> 1, percentage |-> F64Lit(5, 10)],
       [position |-> 2, percentage |-> F64Lit(3, 10)],
       [position |-> 3, percentage |-> F64Lit(2, 10)] >>

\* (total_prize as f64 * percentage) as u64
reward(total_prize, percentage) ==
    F64ToU64(F64Mul(U64ToF64(total_prize), percentage))

\* participants.sort_by_key(|p| p.current_position): a stable sort.
RECURSIVE InsertByPosition(_, _)
InsertByPosition(sorted, p) ==
    IF sorted = <<>> THEN <<p>>
    ELSE IF Head(sorted).current_position <= p.current_position
    THEN <<Head(sorted)>> \o InsertByPosition(Tail(sorted), p)
    ELSE <<p>> \o sorted

RECURSIVE sort_by_position(_)
sort_by_position(participants) ==
    IF participants = <<>> THEN <<>>
    ELSE InsertByPosition(sort_by_position(SubSeq(participants, 1, Len(participants) - 1)),
                          participants[Len(participants)])

\* participants.iter().find(|p| p.current_position == position): the index of
\* the first such participant, 0 if there is none.
find_position(participants, position) ==
    IF \E i \in 1..Len(participants) : participants[i].current_position = position
    THEN CHOOSE i \in 1..Len(participants) :
            /\ participants[i].current_position = position
            /\ \A j \in 1..(i - 1) : participants[j].current_position # position
    ELSE 0

\* The transfers one run of distribute_race_rewards attempts, in order:
\* for each of the positions 1, 2, 3 that has an occupant, the first occupant
\* (in sorted order) and the reward computed for the position.
RECURSIVE payouts_from(_, _, _)
payouts_from(participants, total_prize, i) ==
    IF i > Len(reward_percentages) THEN <<>>
    ELSE LET rp == reward_percentages[i]
             k == find_position(participants, rp.position)
             rest == payouts_from(participants, total_prize, i + 1)
         IN  IF k = 0 THEN rest
             ELSE <<[player |-> participants[k].player,
                     reward |-> reward(total_prize, rp.percentage)]>> \o rest

payouts(race) ==
    payouts_from(sort_by_position(race.participants), race.total_prize_pool, 1)

RECURSIVE SumRewards(_)
SumRewards(ps) == IF ps = <<>> THEN 0 ELSE Head(ps).reward + SumRewards(Tail(ps))

\* ------------------------------------------------------------- NFTs
\* An NFT: owner, nft_type and listed_price (None, or the price).  Metadata,
\* rarity and the transaction history are write-only and left out.
verify_nft_ownership(owner, nft_id, expected_type) ==
    IF nft_id \notin DOMAIN NFTS THEN "NFT not found"
    ELSE IF NFTS[nft_id].owner # owner THEN "Not the owner of this NFT"
    ELSE IF NFTS[nft_id].nft_type # expected_type THEN "NFT is not of the expected type"
    ELSE "Ok"

MintNft(caller, nft_type) ==
    /\ IF ~is_admin(caller)
       THEN /\ UNCHANGED NFTS
            /\ last' = Reply("mint_nft", caller, <<nft_type>>, "Only admins can mint NFTs", 0)
       ELSE /\ NFTS' = Append(NFTS, [owner |-> caller, nft_type |-> nft_type,
                                     listed_price |-> NoPrice])
            /\ last' = Reply("mint_nft", caller, <<nft_type>>, "Ok", 0)
    /\ UNCHANGED <<ledger, RACES, TOKENIZATION_CAMPAIGNS, ADMINS, env, rewards>>

TransferNft(caller, nft_id, to) ==
    LET res == IF nft_id \notin DOMAIN NFTS THEN "NFT not found"
               ELSE IF NFTS[nft_id].owner # caller THEN "Not the owner of this NFT"
               ELSE "Ok"
    IN  /\ last' = Reply("transfer_nft", caller, <<nft_id, to>>, res, 0)
        /\ NFTS' = IF res = "Ok" THEN [NFTS EXCEPT ![nft_id].owner = to] ELSE NFTS
        /\ UNCHANGED <<ledger, RACES, TOKENIZATION_CAMPAIGNS, ADMINS, env, rewards>>

ListNft(caller, nft_id, price) ==
    LET res == IF nft_id \notin DOMAIN NFTS THEN "NFT not found"
               ELSE IF NFTS[nft_id].owner # caller THEN "Not the owner of this NFT"
               ELSE "Ok"
    IN  /\ last' = Reply("list_nft", caller, <<nft_id, price>>, res, 0)
        /\ NFTS' = IF res = "Ok" THEN [NFTS EXCEPT ![nft_id].listed_price = Some(price)] ELSE NFTS
        /\ UNCHANGED <<ledger, RACES, TOKENIZATION_CAMPAIGNS, ADMINS, env, rewards>>

BuyNft(caller, nft_id) ==
    IF nft_id \notin DOMAIN NFTS \/ NFTS[nft_id].listed_price = NoPrice
    THEN /\ last' = Reply("buy_nft", caller, <<nft_id>>,
                          IF nft_id \notin DOMAIN NFTS THEN "NFT not found"
                          ELSE "NFT not listed for sale", 0)
         /\ UNCHANGED <<ledger, stores, env, rewards>>
    ELSE LET nft == NFTS[nft_id]
             r == icrc1_transfer(BALANCES, caller, None, Acct(nft.owner), nft.listed_price[1])
         IN  /\ last' = Reply("buy_nft", caller, <<nft_id>>, r.res, r.balance)
             /\ BALANCES' = r.balances
             /\ NFTS' = IF r.res = "Ok"
                        THEN [NFTS EXCEPT ![nft_id].owner = caller,
                                          ![nft_id].listed_price = NoPrice]
                        ELSE NFTS
             /\ UNCHANGED <<TOTAL_SUPPLY, RACES, TOKENIZATION_CAMPAIGNS, ADMINS, env, rewards>>

\* ------------------------------------------------------------- races
\* A race: participants, status, winner, entry_fee, total_prize_pool, arena_id.
\* name, start_time, end_time and lap_times are write-only and left out; bets
\* is never written.
CreateRace(caller, arena_id, entry_fee) ==
    LET res == IF ~is_admin(caller) THEN "Only admins can create races"
               ELSE IF arena_id \notin DOMAIN NFTS THEN "Arena not found"
               ELSE IF NFTS[arena_id].nft_type # "Arena" THEN "Invalid arena ID"
               ELSE "Ok"
    IN  /\ last' = Reply("create_race", caller, <<arena_id, entry_fee>>, res, 0)
        /\ RACES' = IF res = "Ok"
                    THEN Append(RACES, [arena_id |-> arena_id,
                                        participants |-> <<>>,
                                        status |-> "Upcoming",
                                        winner |-> None,
                                        entry_fee |-> entry_fee,
                                        total_prize_pool |-> 0])
                    ELSE RACES
        /\ UNCHANGED <<ledger, NFTS, TOKENIZATION_CAMPAIGNS, ADMINS, env, rewards>>

\* join_race that enrols the caller before it takes the entry fee.
join_race_enrol_first(caller, race_id, kart_id, driver_id) ==
    LET kart == verify_nft_ownership(caller, kart_id, "Kart")
        driver == verify_nft_ownership(caller, driver_id, "Driver")
        race == RACES[race_id]
        r == icrc1_transfer(BALANCES, caller, None, Acct(Canister), race.entry_fee)
        enrolled == [RACES EXCEPT
                  ![race_id].total_prize_pool = WrapAdd(@, race.entry_fee),
                  ![race_id].participants =
                      Append(@, [player |-> caller, kart_id |-> kart_id,
                                 driver_id |-> driver_id, current_position |-> 0])]
        fail(res) == [res |-> res, balance |-> 0, balances |-> BALANCES, races |-> RACES]
    IN  IF kart # "Ok" THEN fail(kart)
        ELSE IF driver # "Ok" THEN fail(driver)
        ELSE IF race_id \notin DOMAIN RACES THEN fail("Race not found")
        ELSE IF race.status # "Upcoming" THEN fail("Race is not open for joining")
        ELSE IF \E i \in 1..Len(race.participants) : race.participants[i].player = caller
        THEN fail("Already joined this race")
        ELSE IF overflow_checks /\ Overflows(race.total_prize_pool, race.entry_fee)
        THEN fail("Trap")
        ELSE [res |-> r.res, balance |-> r.balance, balances |-> r.balances,
              races |-> enrolled]

\* join_race without its check that the caller is not enrolled yet.
join_race_rejoin(caller, race_id, kart_id, driver_id) ==
    LET kart == verify_nft_ownership(caller, kart_id, "Kart")
        driver == verify_nft_ownership(caller, driver_id, "Driver")
        race == RACES[race_id]
        r == icrc1_transfer(BALANCES, caller, None, Acct(Canister), race.entry_fee)
        fail(res) == [res |-> res, balance |-> 0, balances |-> BALANCES, races |-> RACES]
    IN  IF kart # "Ok" THEN fail(kart)
        ELSE IF driver # "Ok" THEN fail(driver)
        ELSE IF race_id \notin DOMAIN RACES THEN fail("Race not found")
        ELSE IF race.status # "Upcoming" THEN fail("Race is not open for joining")
        ELSE IF r.res # "Ok"
        THEN [res |-> r.res, balance |-> r.balance, balances |-> BALANCES, races |-> RACES]
        ELSE IF overflow_checks /\ Overflows(race.total_prize_pool, race.entry_fee)
        THEN fail("Trap")
        ELSE [res |-> "Ok", balance |-> 0, balances |-> r.balances,
              races |-> [RACES EXCEPT
                  ![race_id].total_prize_pool = WrapAdd(@, race.entry_fee),
                  ![race_id].participants =
                      Append(@, [player |-> caller, kart_id |-> kart_id,
                                 driver_id |-> driver_id, current_position |-> 0])]]

\* The reply of join_race, with the balances and the race it leaves.
join_race(caller, race_id, kart_id, driver_id) ==
    LET kart == verify_nft_ownership(caller, kart_id, "Kart")
        driver == verify_nft_ownership(caller, driver_id, "Driver")
        race == RACES[race_id]
        r == icrc1_transfer(BALANCES, caller, None, Acct(Canister), race.entry_fee)
        fail(res) == [res |-> res, balance |-> 0, balances |-> BALANCES, races |-> RACES]
    IN  IF kart # "Ok" THEN fail(kart)
        ELSE IF driver # "Ok" THEN fail(driver)
        ELSE IF race_id \notin DOMAIN RACES THEN fail("Race not found")
        ELSE IF race.status # "Upcoming" THEN fail("Race is not open for joining")
        ELSE IF \E i \in 1..Len(race.participants) : race.participants[i].player = caller
        THEN fail("Already joined this race")
        ELSE IF r.res # "Ok"
        THEN [res |-> r.res, balance |-> r.balance, balances |-> BALANCES, races |-> RACES]
        ELSE IF overflow_checks /\ Overflows(race.total_prize_pool, race.entry_fee)
        THEN fail("Trap")
        ELSE [res |-> "Ok", balance |-> 0, balances |-> r.balances,
              races |-> [RACES EXCEPT
                  ![race_id].total_prize_pool = WrapAdd(@, race.entry_fee),
                  ![race_id].participants =
                      Append(@, [player |-> caller, kart_id |-> kart_id,
                                 driver_id |-> driver_id, current_position |-> 0])]]

JoinRace(caller, race_id, kart_id, driver_id) ==
    LET j == join_race(caller, race_id, kart_id, driver_id)
    IN  /\ last' = Reply("join_race", caller, <<race_id, kart_id, driver_id>>,
                         j.res, j.balance)
        /\ BALANCES' = j.balances
        /\ RACES' = j.races
        /\ UNCHANGED <<TOTAL_SUPPLY, NFTS, TOKENIZATION_CAMPAIGNS, ADMINS, env, rewards>>

\* start_race is in the interface (spec.md, section 6) but lib.rs has no body
\* for it: admin-only, Upcoming -> InProgress.
StartRace(caller, race_id) ==
    LET res == IF ~is_admin(caller) THEN "Only admins can start races"
               ELSE IF race_id \notin DOMAIN RACES THEN "Race not found"
               ELSE IF RACES[race_id].status # "Upcoming" THEN "Race is not upcoming"
               ELSE "Ok"
    IN  /\ last' = Reply("start_race", caller, <<race_id>>, res, 0)
        /\ RACES' = IF res = "Ok" THEN [RACES EXCEPT ![race_id].status = "InProgress"]
                    ELSE RACES
        /\ UNCHANGED <<ledger, NFTS, TOKENIZATION_CAMPAIGNS, ADMINS, env, rewards>>

\* for (player, position) in participant_positions: the first participant
\* with that player gets the position; an unknown player is skipped.
RECURSIVE set_positions(_, _)
set_positions(participants, participant_positions) ==
    IF participant_positions = <<>> THEN participants
    ELSE LET u == Head(participant_positions)
             hit == {i \in 1..Len(participants) : participants[i].player = u[1]}
             k == CHOOSE i \in hit : \A j \in hit : i <= j
         IN  set_positions(
                 IF hit = {} THEN participants
                 ELSE [participants EXCEPT ![k].current_position = u[2]],
                 Tail(participant_positions))

UpdateRaceProgress(caller, race_id, participant_positions) ==
    LET res == IF ~is_admin(caller) THEN "Only admins can update race progress"
               ELSE IF race_id \notin DOMAIN RACES THEN "Race not found"
               ELSE IF RACES[race_id].status # "InProgress" THEN "Race is not in progress"
               ELSE "Ok"
    IN  /\ last' = Reply("update_race_progress", caller,
                         <<race_id, participant_positions>>, res, 0)
        /\ RACES' = IF res = "Ok"
                    THEN [RACES EXCEPT ![race_id].participants =
                              set_positions(@, participant_positions)]
                    ELSE RACES
        /\ UNCHANGED <<ledger, NFTS, TOKENIZATION_CAMPAIGNS, ADMINS, env, rewards>>

\* The transfers of the reward loop, from the caller's account: the loop
\* stops at the first transfer that fails, keeping the ones already made.
RECURSIVE pay_rewards(_, _, _)
pay_rewards(bal, caller, ps) ==
    IF ps = <<>> THEN [res |-> "Ok", balance |-> 0, balances |-> bal]
    ELSE LET r == icrc1_transfer(bal, caller, None, Acct(Head(ps).player), Head(ps).reward)
         IN  IF r.res # "Ok" THEN r
             ELSE pay_rewards(r.balances, caller, Tail(ps))

\* The body of distribute_race_rewards on the races map `races`; races_borrowed
\* tells whether the caller of the body still holds RACES.borrow_mut(), in
\* which case the body's own borrow_mut() panics (BorrowMutError).
distribute_race_rewards(races, bal, caller, race_id, races_borrowed) ==
    IF races_borrowed THEN [res |-> "Trap", balance |-> 0, balances |-> bal]
    ELSE IF race_id \notin DOMAIN races
    THEN [res |-> "Race not found", balance |-> 0, balances |-> bal]
    ELSE IF races[race_id].status # "Completed"
    THEN [res |-> "Race is not completed", balance |-> 0, balances |-> bal]
    ELSE pay_rewards(bal, caller, payouts(races[race_id]))

DistributeRaceRewards(caller, race_id) ==
    LET d == distribute_race_rewards(RACES, BALANCES, caller, race_id, FALSE)
    IN  /\ last' = Reply("distribute_race_rewards", caller, <<race_id>>, d.res, d.balance)
        /\ BALANCES' = IF d.res = "Trap" THEN BALANCES ELSE d.balances
        /\ UNCHANGED <<TOTAL_SUPPLY, stores, env, rewards>>

\* The reply of end_race, with the races and balances it leaves.  The nested
\* distribute_race_rewards runs inside the RACES.with closure that holds
\* borrow_mut().
end_race(caller, race_id) ==
    LET race == RACES[race_id]
        k == find_position(race.participants, 1)
        completed == [RACES EXCEPT ![race_id].winner = race.participants[k].player,
                                   ![race_id].status = "Completed"]
        d == distribute_race_rewards(completed, BALANCES, caller, race_id, TRUE)
        fail(res) == [res |-> res, balance |-> 0, balances |-> BALANCES, races |-> RACES]
    IN  IF ~is_admin(caller) THEN fail("Only admins can end races")
        ELSE IF race_id \notin DOMAIN RACES THEN fail("Race not found")
        ELSE IF race.status # "InProgress" THEN fail("Race is not in progress")
        ELSE IF k = 0 THEN fail("No winner found")
        ELSE IF d.res = "Trap" THEN fail("Trap")
        ELSE [res |-> d.res, balance |-> d.balance, balances |-> d.balances,
              races |-> completed]

EndRace(caller, race_id) ==
    LET e == end_race(caller, race_id)
    IN  /\ last' = Reply("end_race", caller, <<race_id>>, e.res, e.balance)
        /\ BALANCES' = e.balances
        /\ RACES' = e.races
        /\ UNCHANGED <<TOTAL_SUPPLY, NFTS, TOKENIZATION_CAMPAIGNS, ADMINS, env, rewards>>

\* ------------------------------------------------------------- campaigns
\* A campaign: target_amount, current_amount, status, investors, end_time.
CreateTokenizationCampaign(caller, target_amount, duration) ==
    /\ IF ~is_admin(caller)
       THEN /\ UNCHANGED <<TOKENIZATION_CAMPAIGNS, rewards>>
            /\ last' = Reply("create_tokenization_campaign", caller,
                             <<target_amount, duration>>,
                             "Only admins can create tokenization campaigns", 0)
       ELSE /\ TOKENIZATION_CAMPAIGNS' =
                   Append(TOKENIZATION_CAMPAIGNS,
                          [target_amount |-> target_amount,
                           current_amount |-> 0,
                           status |-> "Active",
                           investors |-> [p \in Users |-> 0],
                           end_time |-> now + duration])
            /\ rewards' = Append(rewards, 0)
            /\ last' = Reply("create_tokenization_campaign", caller,
                             <<target_amount, duration>>, "Ok", 0)
    /\ UNCHANGED <<ledger, RACES, NFTS, ADMINS, env>>

\* if campaign.status != CampaignStatus::Active { return Err(..) }
campaign_open_always(campaign) == TRUE

campaign_not_failed(campaign) == campaign.status # "Failed"

campaign_active(campaign) == campaign.status = "Active"

\* if campaign.current_amount >= campaign.target_amount
target_reached_strict(campaign) == campaign.current_amount > campaign.target_amount

target_reached(campaign) == campaign.current_amount >= campaign.target_amount

\* if time() > campaign.end_time
campaign_never_ends(campaign) == FALSE

campaign_ended(campaign) == now > campaign.end_time

\* mint_campaign_rewards is called by invest_in_campaign but lib.rs has no
\* body for it: the reward issuance of spec.md 4.3, counted per campaign.
mint_campaign_rewards(issued, campaign_id) ==
    [res |-> "Ok", rewards |-> [issued EXCEPT ![campaign_id] = @ + 1]]

\* The reply of invest_in_campaign, with the balances, campaigns and reward
\* counts it leaves.
invest_in_campaign(caller, campaign_id, amount) ==
    LET campaign == TOKENIZATION_CAMPAIGNS[campaign_id]
        r == icrc1_transfer(BALANCES, caller, None, Acct(Canister), amount)
        current == WrapAdd(campaign.current_amount, amount)
        invested == [TOKENIZATION_CAMPAIGNS EXCEPT
                        ![campaign_id].investors[caller] = WrapAdd(@, amount),
                        ![campaign_id].current_amount = current]
        m == mint_campaign_rewards(rewards, campaign_id)
        keep(res) == [res |-> res, balance |-> 0, balances |-> BALANCES,
                      campaigns |-> TOKENIZATION_CAMPAIGNS, rewards |-> rewards]
    IN  IF campaign_id \notin DOMAIN TOKENIZATION_CAMPAIGNS THEN keep("Campaign not found")
        ELSE IF ~campaign_active(campaign) THEN keep("Campaign is not active")
        ELSE IF campaign_ended(campaign)
        THEN [keep("Campaign has ended") EXCEPT
                 !.campaigns = [TOKENIZATION_CAMPAIGNS EXCEPT
                                   ![campaign_id].status = "Failed"]]
        ELSE IF r.res # "Ok" THEN [keep(r.res) EXCEPT !.balance = r.balance]
        ELSE IF overflow_checks /\ (Overflows(campaign.investors[caller], amount)
                                    \/ Overflows(campaign.current_amount, amount))
        THEN keep("Trap")
        ELSE IF target_reached(invested[campaign_id])
        THEN [res |-> m.res, balance |-> 0, balances |-> r.balances,
              campaigns |-> [invested EXCEPT ![campaign_id].status = "Completed"],
              rewards |-> m.rewards]
        ELSE [res |-> "Ok", balance |-> 0, balances |-> r.balances,
              campaigns |-> invested, rewards |-> rewards]

InvestInCampaign(caller, campaign_id, amount) ==
    LET v == invest_in_campaign(caller, campaign_id, amount)
    IN  /\ last' = Reply("invest_in_campaign", caller, <<campaign_id, amount>>,
                         v.res, v.balance)
        /\ BALANCES' = v.balances
        /\ TOKENIZATION_CAMPAIGNS' = v.campaigns
        /\ rewards' = v.rewards
        /\ UNCHANGED <<TOTAL_SUPPLY, RACES, NFTS, ADMINS, env>>

\* ------------------------------------------------------------- time
MaxTime == 2

Tick ==
    /\ now < MaxTime
    /\ now' = now + 1
    /\ UNCHANGED <<ledger, stores, rewards, last, overflow_checks, pay_in, pay_out>>

\* ------------------------------------------------------------- init
\* The state after #[init]: the deployer is the only admin, every store empty.
InitStores ==
    /\ BALANCES = [a \in Account |-> 0]
    /\ TOTAL_SUPPLY = 0
    /\ RACES = <<>>
    /\ NFTS = <<>>
    /\ TOKENIZATION_CAMPAIGNS = <<>>
    /\ ADMINS = {Deployer}
    /\ now = 0
    /\ rewards = <<>>
    /\ last = Reply("init", Deployer, <<>>, "Ok", 0)

NoPay == <<>>

Init ==
    /\ InitStores
    /\ overflow_checks \in BOOLEAN
    /\ pay_in = NoPay
    /\ pay_out = NoPay

\* ------------------------------------------------------------- ledger alone
LedgerAmounts == {0, Unit, 2 * Unit, 3 * Unit}
LedgerAccounts == {Acct("u1"), Acct("u2"), [owner |-> "u2", subaccount |-> "Sub"]}

LedgerNext ==
    \/ \E caller \in Users, to \in LedgerAccounts, amount \in LedgerAmounts :
          Mint(caller, to, amount)
    \/ \E caller \in Users, sub \in Subaccounts, to \in LedgerAccounts,
          amount \in LedgerAmounts :
          Transfer(caller, sub, to, amount)
    \/ \E caller \in Users, principal \in Users : AddAdmin(caller, principal)

LedgerSpec == Init /\ [][LedgerNext]_vars

\* ------------------------------------------------------------- inputs
MaxNfts == 3
MaxRaces == 1
MaxCampaigns == 1
MaxMinted == 2
MaxPosition == 2
EntryFee == 10
TargetAmount == 10
InvestSmall == 4
InvestLarge == 7
Duration == 1

NftTypes == {"Driver", "Kart", "Arena"}
Positions == 1..MaxPosition
Players == {"u1", "u2"}
PlayerAccounts == {Acct(u) : u \in Players}
NftIds == 1..MaxNfts
RaceIds == 1..MaxRaces
CampaignIds == 1..MaxCampaigns
NftsOfType(t) == {i \in DOMAIN NFTS : NFTS[i].nft_type = t}

\* A build that wraps: the runs below keep every sum inside the u64 range, where
\* the two builds agree.
InitRelease ==
    /\ InitStores
    /\ overflow_checks = FALSE
    /\ pay_in = NoPay
    /\ pay_out = NoPay

\* Funding by the deployer, kept below the u64 range (LedgerSpec covers the range).
Fund(amount) ==
    \E to \in PlayerAccounts :
        /\ TOTAL_SUPPLY + amount <= MaxMinted * amount
        /\ Mint(Deployer, to, amount)

\* ------------------------------------------------------------- races
RaceNext ==
    \/ Fund(EntryFee)
    \/ AddAdmin(Deployer, "u2")
    \/ \E nft_type \in NftTypes :
          /\ Len(NFTS) < MaxNfts
          /\ MintNft(Deployer, nft_type)
    \/ \E nft_id \in DOMAIN NFTS, to \in Players : TransferNft(NFTS[nft_id].owner, nft_id, to)
    \/ \E arena_id \in NftsOfType("Arena") :
          /\ Len(RACES) < MaxRaces
          /\ CreateRace(Deployer, arena_id, EntryFee)
    \/ \E caller \in Users, race_id \in RaceIds,
          kart_id \in NftsOfType("Kart"), driver_id \in NftsOfType("Driver") :
          JoinRace(caller, race_id, kart_id, driver_id)
    \/ \E caller \in Users, race_id \in RaceIds : StartRace(caller, race_id)
    \/ \E caller \in Users, race_id \in RaceIds, player \in Players, position \in Positions :
          UpdateRaceProgress(caller, race_id, <<<<player, position>>>>)
    \/ \E caller \in Users, race_id \in RaceIds : EndRace(caller, race_id)
    \/ \E caller \in Users, race_id \in RaceIds : DistributeRaceRewards(caller, race_id)

RaceSpec == InitRelease /\ [][RaceNext]_vars

\* ------------------------------------------------------------- campaigns
InvestAmounts == {InvestSmall, InvestLarge, TargetAmount - InvestSmall}

CampaignNext ==
    \/ Fund(InvestLarge)
    \/ \E caller \in Users :
          /\ Len(TOKENIZATION_CAMPAIGNS) < MaxCampaigns
          /\ CreateTokenizationCampaign(caller, TargetAmount, Duration)
    \/ \E caller \in Users, campaign_id \in CampaignIds, amount \in InvestAmounts :
          InvestInCampaign(caller, campaign_id, amount)
    \/ Tick

CampaignSpec == InitRelease /\ [][CampaignNext]_vars

\* The canister keeps taking messages.
CampaignLiveSpec == CampaignSpec /\ WF_vars(CampaignNext)

\* ------------------------------------------------------------- lifecycles
\* Races and campaigns side by side: one asset of each kind, one player.
LifecycleNext ==
    \/ /\ TOTAL_SUPPLY + InvestLarge <= MaxMinted * InvestLarge
       /\ Mint(Deployer, Acct(Deployer), InvestLarge)
    \/ \E nft_type \in NftTypes :
          /\ NftsOfType(nft_type) = {}
          /\ MintNft(Deployer, nft_type)
    \/ \E arena_id \in NftsOfType("Arena") :
          /\ Len(RACES) < MaxRaces
          /\ CreateRace(Deployer, arena_id, InvestSmall)
    \/ \E race_id \in RaceIds, kart_id \in NftsOfType("Kart"),
          driver_id \in NftsOfType("Driver") :
          JoinRace(Deployer, race_id, kart_id, driver_id)
    \/ \E caller \in Players, race_id \in RaceIds : StartRace(caller, race_id)
    \/ \E race_id \in RaceIds, position \in Positions :
          UpdateRaceProgress(Deployer, race_id, <<<<Deployer, position>>>>)
    \/ \E caller \in Players, race_id \in RaceIds : EndRace(caller, race_id)
    \/ \E caller \in Players, race_id \in RaceIds : DistributeRaceRewards(caller, race_id)
    \/ /\ Len(TOKENIZATION_CAMPAIGNS) < MaxCampaigns
       /\ CreateTokenizationCampaign(Deployer, TargetAmount, Duration)
    \/ \E campaign_id \in CampaignIds, amount \in InvestAmounts :
          InvestInCampaign(Deployer, campaign_id, amount)
    \/ Tick

LifecycleSpec == InitRelease /\ [][LifecycleNext]_vars

\* An admin keeps calling end_race on a race that can be resolved: one that is
\* InProgress and has a participant at position 1.
Resolvable(race_id) ==
    /\ race_id \in DOMAIN RACES
    /\ RACES[race_id].status = "InProgress"
    /\ find_position(RACES[race_id].participants, 1) # 0

Resolve(race_id) == Resolvable(race_id) /\ EndRace(Deployer, race_id)

RaceLiveSpec == LifecycleSpec /\ \A race_id \in RaceIds : SF_vars(Resolve(race_id))

\* ------------------------------------------------------------- admins
\* The entry points that consult or change ADMINS, called by anyone.
AdminNext ==
    \/ \E caller \in Users, principal \in Users : AddAdmin(caller, principal)
    \/ \E caller \in Users :
          /\ TOTAL_SUPPLY + EntryFee <= MaxMinted * EntryFee
          /\ Mint(caller, Acct(Deployer), EntryFee)
    \/ \E caller \in Users, nft_type \in NftTypes :
          /\ NftsOfType(nft_type) = {}
          /\ MintNft(caller, nft_type)
    \/ \E caller \in Users, arena_id \in NftsOfType("Arena") :
          /\ Len(RACES) < MaxRaces
          /\ CreateRace(caller, arena_id, EntryFee)
    \/ \E race_id \in RaceIds, kart_id \in NftsOfType("Kart"),
          driver_id \in NftsOfType("Driver") :
          JoinRace(NFTS[kart_id].owner, race_id, kart_id, driver_id)
    \/ \E caller \in Users, race_id \in RaceIds : StartRace(caller, race_id)
    \/ \E caller \in Users, race_id \in RaceIds :
          UpdateRaceProgress(caller, race_id, <<<<Deployer, 1>>>>)
    \/ \E caller \in Users, race_id \in RaceIds : EndRace(caller, race_id)
    \/ \E race_id \in RaceIds : DistributeRaceRewards(Deployer, race_id)
    \/ \E caller \in Users :
          /\ Len(TOKENIZATION_CAMPAIGNS) < MaxCampaigns
          /\ CreateTokenizationCampaign(caller, TargetAmount, Duration)
    \/ \E campaign_id \in CampaignIds :
          InvestInCampaign(Deployer, campaign_id, TargetAmount)

AdminSpec == InitRelease /\ [][AdminNext]_vars

\* ------------------------------------------------------------- market
MarketNext ==
    \/ \E caller \in Players, to \in PlayerAccounts : Transfer(caller, None, to, EntryFee)
    \/ \E nft_id \in DOMAIN NFTS : ListNft(NFTS[nft_id].owner, nft_id, EntryFee)
    \/ \E caller \in Players, nft_id \in NftIds : BuyNft(caller, nft_id)

\* ------------------------------------------------------------- payout computation
\* The reward loop on its own: any pool, any positions of three participants.
PayPositions == 0..3
PayParticipants ==
    { << [player |-> "u1", kart_id |-> 1, driver_id |-> 2, current_position |-> a],
         [player |-> "u2", kart_id |-> 3, driver_id |-> 4, current_position |-> b],
         [player |-> "u3", kart_id |-> 5, driver_id |-> 6, current_position |-> c] >> :
      a \in PayPositions, b \in PayPositions, c \in PayPositions }

PayInputs == [total_prize_pool : 0..U64Max, participants : PayParticipants]

PayInit ==
    /\ InitStores
    /\ overflow_checks = FALSE
    /\ pay_in \in PayInputs
    /\ pay_out = NoPay

Settle ==
    /\ pay_out = NoPay
    /\ pay_out' = [paid |-> payouts(pay_in)]
    /\ UNCHANGED <<ledger, stores, rewards, last, now, overflow_checks, pay_in>>

PaySpec == PayInit /\ [][Settle]_vars

\* ------------------------------------------------------------- large pools
\* A race whose entry fee is half the u64 range, in both builds: the deployer
\* mints an arena and a kart and a driver for each player, hands u2 theirs,
\* funds each player once with the fee, and the players join.
PoolFee == 2 * Unit
PoolNftTypes == <<"Arena", "Kart", "Driver", "Kart", "Driver">>

PoolNext ==
    \/ \E to \in PlayerAccounts :
          /\ BALANCES[to] = 0
          /\ BALANCES[Acct(Canister)] = 0
          /\ Mint(Deployer, to, PoolFee)
    \/ /\ Len(NFTS) < Len(PoolNftTypes)
       /\ MintNft(Deployer, PoolNftTypes[Len(NFTS) + 1])
    \/ \E nft_id \in DOMAIN NFTS :
          /\ nft_id > 3
          /\ TransferNft(Deployer, nft_id, "u2")
    \/ \E arena_id \in NftsOfType("Arena") :
          /\ Len(RACES) < MaxRaces
          /\ CreateRace(Deployer, arena_id, PoolFee)
    \/ \E caller \in Players, race_id \in RaceIds,
          kart_id \in NftsOfType("Kart"), driver_id \in NftsOfType("Driver") :
          JoinRace(caller, race_id, kart_id, driver_id)
    \/ \E race_id \in RaceIds : StartRace(Deployer, race_id)

PoolSpec == Init /\ [][PoolNext]_vars

\* ------------------------------------------------------------- settlement
\* end_race and distribute_race_rewards on their own: the stores at the entry
\* of the call hold one race of three participants who paid EntryFee each, in
\* any positions, InProgress or Completed (a Completed race has a winner), the
\* holding account holds the pool, and u1 and u2 hold nothing or a pool's
\* worth.  A Completed race is an input here: no run of RaceSpec completes
\* one, because end_race traps.
SettleNfts ==
    [i \in 1..7 |->
        [owner |-> IF i = 7 THEN Deployer ELSE <<"u1", "u1", "u2", "u2", "u3", "u3">>[i],
         nft_type |-> IF i = 7 THEN "Arena" ELSE IF i % 2 = 1 THEN "Kart" ELSE "Driver",
         listed_price |-> NoPrice]]

SettleRaces ==
    { << [arena_id |-> 7,
          participants |-> ps,
          status |-> st,
          winner |-> IF st = "Completed" THEN ps[find_position(ps, 1)].player ELSE None,
          entry_fee |-> EntryFee,
          total_prize_pool |-> 3 * EntryFee] >> :
      ps \in {q \in PayParticipants : find_position(q, 1) # 0},
      st \in {"InProgress", "Completed"} }

SettleInit ==
    /\ RACES \in SettleRaces
    /\ NFTS = SettleNfts
    /\ \E b1 \in {0, 3 * EntryFee}, b2 \in {0, 3 * EntryFee} :
          /\ BALANCES = [a \in Account |->
                            IF a = Acct(Canister) THEN 3 * EntryFee
                            ELSE IF a = Acct("u1") THEN b1
                            ELSE IF a = Acct("u2") THEN b2
                            ELSE 0]
          /\ TOTAL_SUPPLY = 3 * EntryFee + b1 + b2
    /\ TOKENIZATION_CAMPAIGNS = <<>>
    /\ ADMINS = {Deployer}
    /\ now = 0
    /\ rewards = <<>>
    /\ last = Reply("init", Deployer, <<>>, "Ok", 0)
    /\ overflow_checks = FALSE
    /\ pay_in = NoPay
    /\ pay_out = NoPay

SettleNext ==
    \/ \E caller \in Users, race_id \in RaceIds : EndRace(caller, race_id)
    \/ \E caller \in Users, race_id \in RaceIds : DistributeRaceRewards(caller, race_id)

SettleSpec == SettleInit /\ [][SettleNext]_vars

\* ------------------------------------------------------------- the canister
Next ==
    \/ LedgerNext
    \/ RaceNext
    \/ CampaignNext
    \/ MarketNext

Spec == Init /\ [][Next]_vars

\* ============================================================= claims
RECURSIVE SumOver(_, _)
SumOver(bal, accounts) ==
    IF accounts = {} THEN 0
    ELSE LET a == CHOOSE x \in accounts : TRUE
         IN  bal[a] + SumOver(bal, accounts \ {a})

SumBalances(bal) == SumOver(bal, Account)

OthersUnchanged(accounts) ==
    \A a \in Account \ accounts : BALANCES'[a] = BALANCES[a]

\* C1: after every message total_supply() equals the sum of all ledger
\* balances (escrow counted as the balance of the canister's account), and
\* only a successful icrc1_mint changes total_supply.
C1_Conservation ==
    [][/\ TOTAL_SUPPLY' = SumBalances(BALANCES')
       /\ TOTAL_SUPPLY' # TOTAL_SUPPLY =>
             last'.op = "icrc1_mint" /\ last'.res = "Ok"]_vars

\* C2: an icrc1_transfer of more than the caller's account holds fails with
\* InsufficientFunds{balance} and changes no balance and not the supply; a
\* transfer that succeeds debits an account that held at least the amount,
\* so the debit never goes below 0 and never wraps.
C2_InsufficientFunds ==
    [][last'.op = "icrc1_transfer" =>
          LET from == [owner |-> last'.caller, subaccount |-> last'.args[1]]
              to == last'.args[2]
              amount == last'.args[3]
          IN  /\ BALANCES[from] < amount =>
                    /\ last'.res = "InsufficientFunds"
                    /\ last'.balance = BALANCES[from]
                    /\ UNCHANGED ledger
              /\ last'.res = "Ok" =>
                    /\ BALANCES[from] >= amount
                    /\ from # to => BALANCES'[from] = BALANCES[from] - amount]_vars

C2_Witness ==
    /\ last.op = "icrc1_transfer"
    /\ last.res = "InsufficientFunds"
    /\ last.balance > 0
    /\ last.balance < last.args[3]
    /\ BALANCES[[owner |-> last.caller, subaccount |-> last.args[1]]] = last.balance

\* C3: a successful icrc1_transfer of a from F to another account T takes
\* exactly a from F and adds exactly a to T in one step; with F = T the
\* balance stays; every other balance, the supply, the races, the campaigns
\* and the admins stay.
C3_TransferFrame ==
    [][last'.op = "icrc1_transfer" /\ last'.res = "Ok" =>
          LET from == [owner |-> last'.caller, subaccount |-> last'.args[1]]
              to == last'.args[2]
              amount == last'.args[3]
          IN  /\ IF from # to
                 THEN /\ BALANCES'[from] = BALANCES[from] - amount
                      /\ BALANCES'[to] = BALANCES[to] + amount
                 ELSE BALANCES'[from] = BALANCES[from]
              /\ OthersUnchanged({from, to})
              /\ UNCHANGED <<TOTAL_SUPPLY, RACES, TOKENIZATION_CAMPAIGNS, ADMINS>>]_vars

EndRaceRejections ==
    {"Only admins can end races", "Race not found", "Race is not in progress",
     "No winner found"}

\* A resolution: an end_race that passed every check of end_race.
Resolution(l) == l.op = "end_race" /\ l.res \notin EndRaceRejections

InvalidState == {"Race is not in progress", "Race is not completed"}

C6_LifecycleMonotonic ==
    [][/\ Len(RACES') >= Len(RACES)
       /\ \A r \in DOMAIN RACES :
             /\ RACES[r].status = "Completed" => RACES'[r].status = "Completed"
             /\ RACES[r].status = "InProgress" =>
                   RACES'[r].status \in {"InProgress", "Completed"}
       /\ Len(TOKENIZATION_CAMPAIGNS') >= Len(TOKENIZATION_CAMPAIGNS)
       /\ \A c \in DOMAIN TOKENIZATION_CAMPAIGNS :
             /\ TOKENIZATION_CAMPAIGNS[c].status \in {"Completed", "Failed"} =>
                   TOKENIZATION_CAMPAIGNS'[c].status = TOKENIZATION_CAMPAIGNS[c].status
             /\ TOKENIZATION_CAMPAIGNS[c].status = "Active" =>
                   TOKENIZATION_CAMPAIGNS'[c].status \in {"Active", "Completed", "Failed"}]_vars

\* A Completed campaign was invested in again after its end_time and kept its
\* status, next to a race that was started.
C6_Witness ==
    /\ last.op = "invest_in_campaign"
    /\ last.res = "Campaign is not active"
    /\ TOKENIZATION_CAMPAIGNS[last.args[1]].status = "Completed"
    /\ now > TOKENIZATION_CAMPAIGNS[last.args[1]].end_time
    /\ \E r \in DOMAIN RACES : RACES[r].status = "InProgress"

\* C7: the payouts one settlement computes for the positions 1, 2, 3 sum to at
\* most total_prize_pool, for every pool and every assignment of positions.
C7_PayoutBound ==
    pay_out # NoPay => SumRewards(pay_out.paid) <= pay_in.total_prize_pool

\* floor(P * percent / 100)
Share(pool, percent) == (pool * percent) \div 100
SharePercent == <<50, 30, 20>>

\* C8: end_race by an admin on an InProgress race whose position 1 is held
\* succeeds, completes the race with the position-1 participant as winner,
\* and the participants at positions 1, 2, 3 receive floor(P*50/100),
\* floor(P*30/100), floor(P*20/100); a position without occupant pays nothing.
C8_EndRacePays ==
    [][(/\ last'.op = "end_race"
        /\ last'.caller \in ADMINS
        /\ last'.args[1] \in DOMAIN RACES
        /\ RACES[last'.args[1]].status = "InProgress"
        /\ find_position(RACES[last'.args[1]].participants, 1) # 0)
       => LET race == RACES[last'.args[1]]
              after == RACES'[last'.args[1]]
              occupant(k) == find_position(race.participants, k)
          IN  /\ last'.res = "Ok"
              /\ after.status = "Completed"
              /\ after.winner = race.participants[occupant(1)].player
              /\ \A k \in 1..3 : occupant(k) # 0 =>
                    LET a == Acct(race.participants[occupant(k)].player)
                    IN  BALANCES'[a] = BALANCES[a] + Share(race.total_prize_pool,
                                                           SharePercent[k])]_vars

\* C9: a join_race that fails changes no balance, not the supply and no race
\* (neither participants nor total_prize_pool); it fails with
\* InsufficientFunds exactly when the caller passed every check and holds
\* less than the entry fee.
C9_JoinAtomic ==
    [][last'.op = "join_race" =>
          LET caller == last'.caller
              race_id == last'.args[1]
          IN  /\ last'.res # "Ok" => UNCHANGED <<BALANCES, TOTAL_SUPPLY, RACES>>
              /\ last'.res = "InsufficientFunds" =>
                    /\ BALANCES[Acct(caller)] < RACES[race_id].entry_fee
                    /\ last'.balance = BALANCES[Acct(caller)]
              /\ (race_id \in DOMAIN RACES
                  /\ BALANCES[Acct(caller)] < RACES[race_id].entry_fee) =>
                    last'.res # "Ok"]_vars

C9_Witness ==
    /\ last.op = "join_race"
    /\ last.res = "InsufficientFunds"
    /\ RACES[last.args[1]].participants # <<>>
    /\ \A i \in DOMAIN RACES[last.args[1]].participants :
          RACES[last.args[1]].participants[i].player # last.caller
    /\ RACES[last.args[1]].total_prize_pool =
          Len(RACES[last.args[1]].participants) * RACES[last.args[1]].entry_fee

\* C10: after a successful invest_in_campaign the campaign is Completed if
\* and only if its current_amount is at least its target_amount.
C10_CompletedIffTarget ==
    (last.op = "invest_in_campaign" /\ last.res = "Ok") =>
        LET campaign == TOKENIZATION_CAMPAIGNS[last.args[1]]
        IN  /\ campaign.status \in {"Active", "Completed"}
            /\ campaign.status = "Completed" <=>
                  campaign.current_amount >= campaign.target_amount

\* Two investors, InvestSmall then InvestLarge: Completed on the second invest.
C10_Witness ==
    /\ last.op = "invest_in_campaign"
    /\ last.res = "Ok"
    /\ last.args[2] = InvestLarge
    /\ LET campaign == TOKENIZATION_CAMPAIGNS[last.args[1]]
       IN  /\ campaign.status = "Completed"
           /\ campaign.current_amount = InvestSmall + InvestLarge
           /\ campaign.current_amount - last.args[2] < campaign.target_amount
           /\ campaign.investors[last.caller] = InvestLarge

\* A step of the clock leaves `last`; a message leaves the clock.
\* C11: invest_in_campaign on an Active campaign at a time later than its
\* end_time replies "Campaign has ended", sets the status to Failed and invests
\* nothing: balances, supply, investors and current_amount stay; a Failed
\* campaign stays Failed, and every later invest in it fails and changes
\* nothing.
C11_InvestAfterEnd ==
    [][/\ \A c \in DOMAIN TOKENIZATION_CAMPAIGNS :
             TOKENIZATION_CAMPAIGNS[c].status = "Failed" =>
                TOKENIZATION_CAMPAIGNS'[c] = TOKENIZATION_CAMPAIGNS[c]
       /\ (last'.op = "invest_in_campaign"
           /\ now' = now
           /\ last'.args[1] \in DOMAIN TOKENIZATION_CAMPAIGNS) =>
             LET before == TOKENIZATION_CAMPAIGNS[last'.args[1]]
                 after == TOKENIZATION_CAMPAIGNS'[last'.args[1]]
             IN  /\ (before.status = "Active" /\ now > before.end_time) =>
                       /\ last'.res = "Campaign has ended"
                       /\ after = [before EXCEPT !.status = "Failed"]
                       /\ UNCHANGED <<ledger, rewards>>
                 /\ before.status = "Failed" =>
                       /\ last'.res = "Campaign is not active"
                       /\ UNCHANGED <<ledger, rewards>>]_vars

\* A campaign that holds a contribution was failed by an invest after its
\* end_time; the contribution is still recorded.
C11_Witness ==
    /\ last.op = "invest_in_campaign"
    /\ last.res = "Campaign has ended"
    /\ LET campaign == TOKENIZATION_CAMPAIGNS[last.args[1]]
       IN  /\ campaign.status = "Failed"
           /\ now > campaign.end_time
           /\ campaign.current_amount = InvestSmall
           /\ BALANCES[Acct(Canister)] = InvestSmall

\* C12: for every campaign the reward issuance runs at most once, and it runs
\* only in the invest_in_campaign call that moves the campaign from Active to
\* Completed, whoever the investors are.
C12_RewardsOnce ==
    [][\A c \in DOMAIN rewards' :
          LET issued == IF c \in DOMAIN rewards THEN rewards[c] ELSE 0
          IN  /\ rewards'[c] <= 1
              /\ rewards'[c] # issued =>
                    /\ last'.op = "invest_in_campaign"
                    /\ last'.args[1] = c
                    /\ TOKENIZATION_CAMPAIGNS[c].status = "Active"
                    /\ TOKENIZATION_CAMPAIGNS'[c].status = "Completed"]_vars

\* The campaign was completed, the rewards were issued once, and a further
\* invest by an investor who holds the amount was turned down.
C12_Witness ==
    /\ last.op = "invest_in_campaign"
    /\ last.res = "Campaign is not active"
    /\ BALANCES[Acct(last.caller)] >= last.args[2]
    /\ LET campaign == TOKENIZATION_CAMPAIGNS[last.args[1]]
       IN  /\ campaign.status = "Completed"
           /\ campaign.current_amount >= campaign.target_amount
           /\ rewards[last.args[1]] = 1

\* C13: once a campaign is Failed, every investor with a recorded contribution
\* eventually gets it back out of the holding account: the holding account,
\* which held h when the campaign was Failed, eventually holds at most h less
\* the contribution.
C13_RefundsAvailable ==
    \A c \in CampaignIds, p \in Users, h \in 0..(MaxMinted * InvestLarge) :
        (/\ c \in DOMAIN TOKENIZATION_CAMPAIGNS
         /\ TOKENIZATION_CAMPAIGNS[c].status = "Failed"
         /\ TOKENIZATION_CAMPAIGNS[c].investors[p] > 0
         /\ BALANCES[Acct(Canister)] = h)
        ~> (/\ c \in DOMAIN TOKENIZATION_CAMPAIGNS
            /\ BALANCES[Acct(Canister)] <= h - TOKENIZATION_CAMPAIGNS[c].investors[p])

\* C14: the admin set starts as exactly the initializing caller; it changes
\* only by an add_admin called by a member, which adds the named principal;
\* add_admin by a non-member fails and leaves the set; no step removes a
\* member, and the initializer is a member in every state.
C14_AdminSet ==
    /\ ADMINS = {Deployer}
    /\ [][/\ ADMINS \subseteq ADMINS'
          /\ ADMINS' # ADMINS =>
                /\ last'.op = "add_admin"
                /\ last'.res = "Ok"
                /\ last'.caller \in ADMINS
                /\ ADMINS' = ADMINS \cup {last'.args[1]}
          /\ (last'.op = "add_admin" /\ last'.caller \notin ADMINS) =>
                /\ last'.res # "Ok"
                /\ ADMINS' = ADMINS]_vars
    /\ [](Deployer \in ADMINS)

\* An admin who was added by add_admin added a third one; a race and a
\* campaign exist.
C14_Witness ==
    /\ ADMINS = Users
    /\ last.op = "add_admin"
    /\ last.res = "Ok"
    /\ last.caller # Deployer
    /\ RACES # <<>>
    /\ TOKENIZATION_CAMPAIGNS # <<>>

C16_RaceCompletes ==
    /\ [][(last'.op = "start_race" /\ now' = now /\ last'.args[1] \in DOMAIN RACES) =>
             LET r == last'.args[1]
             IN  IF last'.caller \in ADMINS /\ RACES[r].status = "Upcoming"
                 THEN /\ last'.res = "Ok"
                      /\ RACES' = [RACES EXCEPT ![r].status = "InProgress"]
                 ELSE /\ last'.res # "Ok"
                      /\ RACES' = RACES]_vars
    /\ \A r \in RaceIds :
          []<>Resolvable(r) => <>(r \in DOMAIN RACES /\ RACES[r].status = "Completed")

\* C17: end_race by an admin on an InProgress race with a participant at
\* position 1 runs to completion: the nested distribute_race_rewards acquires
\* RACES and the message does not trap on a double borrow.
C17_NoDoubleBorrow ==
    [][(/\ last'.op = "end_race"
        /\ last'.caller \in ADMINS
        /\ Resolvable(last'.args[1]))
       => last'.res # "Trap"]_vars

Enrolment(race) ==
    [i \in DOMAIN race.participants |->
        [player |-> race.participants[i].player,
         kart_id |-> race.participants[i].kart_id,
         driver_id |-> race.participants[i].driver_id]]

Enrolled(race, p) == \E i \in DOMAIN race.participants : race.participants[i].player = p

\* C19: no principal is twice in a race's participant list; the enrolment of
\* a race changes only while the race is Upcoming; a join_race by a caller who
\* is enrolled already, or on a race that is not Upcoming, fails and leaves
\* every race and every balance.
C19_NoDuplicateParticipants ==
    /\ [](\A r \in DOMAIN RACES :
             \A i, j \in DOMAIN RACES[r].participants :
                 RACES[r].participants[i].player = RACES[r].participants[j].player => i = j)
    /\ [][/\ \A r \in DOMAIN RACES :
                Enrolment(RACES'[r]) # Enrolment(RACES[r]) => RACES[r].status = "Upcoming"
          /\ (/\ last'.op = "join_race"
              /\ last'.args[1] \in DOMAIN RACES
              /\ \/ Enrolled(RACES[last'.args[1]], last'.caller)
                 \/ RACES[last'.args[1]].status # "Upcoming")
             => /\ last'.res # "Ok"
                /\ RACES' = RACES
                /\ UNCHANGED ledger]_vars

\* An enrolled player who owns a kart and a driver and holds the entry fee
\* tried to join again.
C19_Witness ==
    /\ last.op = "join_race"
    /\ last.res = "Already joined this race"
    /\ BALANCES[Acct(last.caller)] >= RACES[last.args[1]].entry_fee
    /\ RACES[last.args[1]].status = "Upcoming"
    /\ Enrolled(RACES[last.args[1]], last.caller)

\* C20: in every state the total_prize_pool of every race is its entry_fee
\* times the number of its participants: a race starts with pool 0 and no
\* participant, a successful join_race adds exactly entry_fee and exactly one
\* participant, and no other step changes the pool or the number.
C20_PoolIsFeeTimesParticipants ==
    /\ [](\A r \in DOMAIN RACES :
             RACES[r].total_prize_pool = RACES[r].entry_fee * Len(RACES[r].participants))
    /\ [][\A r \in DOMAIN RACES' :
             IF r \notin DOMAIN RACES
             THEN RACES'[r].total_prize_pool = 0 /\ RACES'[r].participants = <<>>
             ELSE IF last'.op = "join_race" /\ last'.res = "Ok" /\ last'.args[1] = r
             THEN /\ RACES'[r].total_prize_pool =
                        RACES[r].total_prize_pool + RACES[r].entry_fee
                  /\ Len(RACES'[r].participants) = Len(RACES[r].participants) + 1
             ELSE /\ RACES'[r].total_prize_pool = RACES[r].total_prize_pool
                  /\ Len(RACES'[r].participants) = Len(RACES[r].participants)]_vars

\* C21: an icrc1_mint by an admin whose amount would take the balance of `to`
\* or the supply above u64::MAX fails with an Overflow error and leaves
\* balances and supply; no balance and not the supply ever wraps: a mint that
\* succeeds adds exactly amount to both, and a transfer that succeeds credits
\* exactly amount.
C21_MintOverflow ==
    [][/\ (last'.op = "icrc1_mint" /\ last'.caller \in ADMINS) =>
             LET to == last'.args[1]
                 amount == last'.args[2]
             IN  /\ (BALANCES[to] + amount > U64Max \/ TOTAL_SUPPLY + amount > U64Max) =>
                       /\ last'.res = "Overflow"
                       /\ UNCHANGED ledger
                 /\ last'.res = "Ok" =>
                       /\ BALANCES'[to] = BALANCES[to] + amount
                       /\ TOTAL_SUPPLY' = TOTAL_SUPPLY + amount
       /\ (last'.op = "icrc1_transfer" /\ last'.res = "Ok") =>
             LET from == [owner |-> last'.caller, subaccount |-> last'.args[1]]
                 to == last'.args[2]
                 amount == last'.args[3]
             IN  from # to => BALANCES'[to] = BALANCES[to] + amount]_vars

====
